---- MODULE Spec2Model ----
(***************************************************************************)
(* Model of the checkpointed batch run of GraphBuilder.py: the message     *)
(* loop that extracts a knowledge graph per Slack message and records the  *)
(* outcome in a JSON checkpoint ledger, together with process crashes and  *)
(* restarts of the script.                                                 *)
(*                                                                         *)
(* Data abstraction.  A text is the sequence of its paragraphs (the pieces *)
(* between "\n\n"); a paragraph is represented by its cl100k token count   *)
(* (0 is the empty paragraph) and, once it is part of slack_content, by    *)
(* the timestamp of the root message it was taken from.  The separator     *)
(* "\n\n" is one token of the encoding, and paragraphs carry no leading or *)
(* trailing white space, so the token count of a text is the sum of its    *)
(* paragraphs' counts plus one per separator.                              *)
(***************************************************************************)
EXTENDS Integers, Sequences, FiniteSets, TLC

\* ---------------------------------------------------------------- bounds
MaxMsgs == 2        \* records in the input file; timestamps are 1..MaxMsgs
MaxRuns == 2        \* executions of the script (restarts after a stop)

\* ------------------------------------------------------ program constants
token_limit == 3000

\* ------------------------------------------------------------ input data
NoTimestamp == 0                      \* the record has no "timestamp" key
EmptyTimestamp == -1                  \* the record's "timestamp" is ""
Ids == 1..MaxMsgs

EmptyText == <<0>>                    \* "" : one empty paragraph

\* The message bodies the input is drawn from: text and thread_replies.
Bodies ==
  { [text |-> <<1000>>,  thread_replies |-> <<>>],
    [text |-> EmptyText, thread_replies |-> << <<500>> >>],
    [text |-> <<1000>>,  thread_replies |-> << <<3100>> >>] }

Record(ts, b) ==
  [timestamp |-> ts, text |-> b.text, thread_replies |-> b.thread_replies]

Records ==
  { Record(ts, b) : ts \in Ids, b \in Bodies }
    \cup { Record(ts, [text |-> <<1000>>, thread_replies |-> <<>>]) :
               ts \in {NoTimestamp, EmptyTimestamp} }

\* Slack timestamps identify a message: no two records share one.
DistinctIds(ms) ==
  \A a, b \in 1..Len(ms) :
     (a # b /\ ms[a].timestamp \in Ids)
        => ms[a].timestamp # ms[b].timestamp

InputFiles ==
  { ms \in UNION { [1..n -> Records] : n \in 1..MaxMsgs } : DistinctIds(ms) }

\* the ids of a batch: the timestamps of the records that have one
ItemIds(ms) == { ms[k].timestamp : k \in 1..Len(ms) } \cap Ids

\* str(msg.get("timestamp") or ""): "" (NoTimestamp here) when the key is
\* missing or its value is empty
IdOf(m) == IF m.timestamp \in Ids THEN m.timestamp ELSE NoTimestamp

\* What the backends do with an item whenever it is attempted.
Outcomes == {"ok", "extract_fail", "graph_fail"}

\* --------------------------------------------------------------- ledger
EmptyLedger == [k \in {} |-> [status |-> "pending"]]

PendingEntry == [status |-> "pending"]
DoneEntry == [status |-> "done", result |-> "Processed message {msg_id}"]
ErrorEntry(err_msg) == [status |-> "error", error |-> err_msg]

Put(ledger, id, entry) ==
  [k \in (DOMAIN ledger) \cup {id} |-> IF k = id THEN entry ELSE ledger[k]]

StatusOf(ledger, id) ==
  IF id \in DOMAIN ledger THEN ledger[id].status ELSE "absent"

\* The checkpoint file: missing, complete, or cut short by open(.., "w").
NoFile == [state |-> "nofile", data |-> EmptyLedger]
Truncated == [state |-> "truncated", data |-> EmptyLedger]
Complete(ledger) == [state |-> "complete", data |-> ledger]

\* ---------------------------------------------------------------- sort
\* messages.sort(key=lambda m: float(m.get("timestamp", 0))): stable.
SortKey(m) == m.timestamp

\* float("") raises ValueError: the default 0 covers a missing key only
SortRaises(ms) == \E k \in 1..Len(ms) : ms[k].timestamp = EmptyTimestamp

RECURSIVE InsertSorted(_, _)
InsertSorted(sorted, m) ==
  IF sorted = <<>> THEN <<m>>
  ELSE IF SortKey(sorted[Len(sorted)]) <= SortKey(m)
       THEN Append(sorted, m)
       ELSE Append(InsertSorted(SubSeq(sorted, 1, Len(sorted) - 1), m),
                   sorted[Len(sorted)])

RECURSIVE SortMessagesFrom(_, _, _)
SortMessagesFrom(ms, k, acc) ==
  IF k > Len(ms) THEN acc
  ELSE SortMessagesFrom(ms, k + 1, InsertSorted(acc, ms[k]))

SortMessagesUnsorted(ms) == ms

SortMessages(ms) == SortMessagesFrom(ms, 1, <<>>)

\* --------------------------------------------------------------- tokens
RECURSIVE SumTok(_)
SumTok(ps) == IF ps = <<>> THEN 0 ELSE ps[1].tok + SumTok(Tail(ps))

\* len(encoding.encode(s)) of the string whose paragraphs are ps
Tokens(ps) == IF ps = <<>> THEN 0 ELSE SumTok(ps) + (Len(ps) - 1)

\* ------------------------------------------------------ content building
Para(t, owner) == [tok |-> t, owner |-> owner]

\* extract_merge_text of a body without attachments, owned by item owner
RECURSIVE MergeText(_, _)
MergeText(text, owner) ==
  IF text = <<>> THEN <<>>
  ELSE <<Para(text[1], owner)>> \o MergeText(Tail(text), owner)

RECURSIVE AppendReplies(_, _, _)
AppendReplies(content, replies, owner) ==
  IF replies = <<>> THEN content
  ELSE AppendReplies(
         IF replies[1] # EmptyText
           THEN content \o MergeText(replies[1], owner)
           ELSE content,
         Tail(replies), owner)

\* ------------------------------------------------------------- splitting
\* str.strip() of a chunk: leading and trailing empty paragraphs vanish
RECURSIVE StripLeft(_)
StripLeft(ps) ==
  IF Len(ps) > 1 /\ ps[1].tok = 0 THEN StripLeft(Tail(ps)) ELSE ps

RECURSIVE StripRight(_)
StripRight(ps) ==
  IF Len(ps) > 1 /\ ps[Len(ps)].tok = 0
    THEN StripRight(SubSeq(ps, 1, Len(ps) - 1)) ELSE ps

Strip(ps) == StripRight(StripLeft(ps))

\* the for loop over paragraphs; state is (current_chunk, current_tokens,
\* documents), current_chunk = <<>> is the empty string
RECURSIVE PackFrom(_, _, _, _, _)
PackFrom(paragraphs, k, current_chunk, current_tokens, documents) ==
  IF k > Len(paragraphs)
    THEN IF current_chunk # <<>>
           THEN Append(documents, Strip(current_chunk))
           ELSE documents
    ELSE LET para == paragraphs[k]
             para_tokens == para.tok
         IN IF current_tokens + para_tokens < token_limit
              THEN PackFrom(paragraphs, k + 1, Append(current_chunk, para),
                            current_tokens + para_tokens, documents)
              ELSE PackFrom(paragraphs, k + 1, <<para>>, para_tokens,
                            IF current_chunk # <<>>
                              THEN Append(documents, Strip(current_chunk))
                              ELSE documents)

SplitContent(slack_content) ==
  IF Tokens(slack_content) > token_limit
    THEN PackFrom(slack_content, 1, <<>>, 0, <<>>)
    ELSE <<slack_content>>

\* ================================================================ state
VARIABLES
  input,          \* the records of the input JSON file, in file order
  outcome,        \* what the backends do for each item id
  disk,           \* the checkpoint file
  graph,          \* knowledge-graph backend: successful writes per item id
  run,            \* number of the current execution of the script
  prev_end,       \* how the previous execution ended
  pc,             \* position of the current execution
  exc,            \* the uncaught exception that ended it, if any
  messages,       \* in-memory list of records, sorted at load
  checkpoint,     \* in-memory ledger
  i,              \* index of the loop's current record in messages
  slack_content,  \* the loop variable of that name; unbound until assigned
  documents,      \* sub-units of the current item
  j,              \* index of the next sub-unit to extract
  graph_docs,     \* sub-results extracted so far for the current item
  err_msg,        \* str(e) of the exception caught by the handler
  loaded,         \* the ledger as this execution loaded it
  started,        \* ids this execution marked pending, in order
  invoked,        \* ids whose unit of work this execution invoked
  everDone,       \* ids whose entry has been done in a complete file
  pack,           \* the paragraph-packing loop of lines 128-142 on its own
  dp,             \* DataProcessor.py: main and _flatten_messages
  norm,           \* one call of a markup cleaner
  rag,            \* slack_bot.py handlers and RagQuery.answer_query
  vs              \* VectorStoreSaver.build_vector_store

persistent == <<input, outcome, disk, graph, run, prev_end, everDone>>
memory == <<messages, checkpoint, i, slack_content, documents, j,
            graph_docs, err_msg, loaded, started, invoked>>
batch_vars == <<persistent, pc, exc, memory>>

\* the other programs of the repository; each is studied by a
\* specification of its own and is idle in the others
others == <<pack, dp, norm, rag, vs>>
Idle == [pc |-> "idle"]

vars == <<batch_vars, others>>

Unbound == [bound |-> FALSE, paras |-> <<>>]
Bound(ps) == [bound |-> TRUE, paras |-> ps]

\* the interpreter's state when the script starts
FreshMemory ==
  /\ messages = <<>>
  /\ checkpoint = EmptyLedger
  /\ i = 0
  /\ slack_content = Unbound
  /\ documents = <<>>
  /\ j = 0
  /\ graph_docs = <<>>
  /\ err_msg = ""
  /\ loaded = EmptyLedger
  /\ started = <<>>
  /\ invoked = {}

ResetMemory ==
  /\ messages' = <<>>
  /\ checkpoint' = EmptyLedger
  /\ i' = 0
  /\ slack_content' = Unbound
  /\ documents' = <<>>
  /\ j' = 0
  /\ graph_docs' = <<>>
  /\ err_msg' = ""
  /\ loaded' = EmptyLedger
  /\ started' = <<>>
  /\ invoked' = {}

Init ==
  /\ input \in InputFiles
  /\ outcome \in { o \in [Ids -> Outcomes] :
                      \A id \in Ids \ ItemIds(input) : o[id] = "ok" }
  /\ disk = NoFile
  /\ graph = [id \in Ids |-> 0]
  /\ run = 1
  /\ prev_end = "none"
  /\ everDone = {}
  /\ pc = "start"
  /\ exc = "none"
  /\ FreshMemory
  /\ pack = Idle /\ dp = Idle /\ norm = Idle /\ rag = Idle /\ vs = Idle

msg == messages[i]
msg_id == IdOf(msg)

\* ============================================================== actions
\* lines 52-64: read the input, sort it, load the checkpoint file
SortFails ==
  /\ pc = "start"
  /\ SortRaises(input)
  /\ pc' = "aborted"
  /\ exc' = "ValueError"
  /\ UNCHANGED <<others, persistent, memory>>

LoadOk ==
  /\ pc = "start"
  /\ ~SortRaises(input)
  /\ disk.state # "truncated"
  /\ messages' = SortMessages(input)
  /\ checkpoint' = disk.data
  /\ loaded' = disk.data
  /\ i' = 1
  /\ pc' = "loop"
  /\ UNCHANGED <<others, persistent, exc, slack_content, documents, j, graph_docs,
                 err_msg, started, invoked>>

\* json.load of a file cut short raises JSONDecodeError
LoadFails ==
  /\ pc = "start"
  /\ ~SortRaises(input)
  /\ disk.state = "truncated"
  /\ messages' = SortMessages(input)
  /\ pc' = "aborted"
  /\ exc' = "JSONDecodeError"
  /\ UNCHANGED <<others, persistent, checkpoint, i, slack_content, documents, j,
                 graph_docs, err_msg, loaded, started, invoked>>

\* line 99: the for loop is exhausted; line 174
Finish ==
  /\ pc = "loop"
  /\ i > Len(messages)
  /\ pc' = "finished"
  /\ UNCHANGED <<others, persistent, exc, memory>>

\* lines 101-103
SkipNoId ==
  /\ pc = "loop"
  /\ i <= Len(messages)
  /\ msg_id = NoTimestamp
  /\ i' = i + 1
  /\ UNCHANGED <<others, persistent, pc, exc, messages, checkpoint, slack_content,
                 documents, j, graph_docs, err_msg, loaded, started,
                 invoked>>

\* lines 104-105
SkipDone ==
  /\ pc = "loop"
  /\ i <= Len(messages)
  /\ msg_id # NoTimestamp
  /\ StatusOf(checkpoint, msg_id) = "done"
  /\ i' = i + 1
  /\ UNCHANGED <<others, persistent, pc, exc, messages, checkpoint, slack_content,
                 documents, j, graph_docs, err_msg, loaded, started,
                 invoked>>

\* line 108
MarkPending ==
  /\ pc = "loop"
  /\ i <= Len(messages)
  /\ msg_id # NoTimestamp
  /\ StatusOf(checkpoint, msg_id) # "done"
  /\ checkpoint' = Put(checkpoint, msg_id, PendingEntry)
  /\ started' = Append(started, msg_id)
  /\ pc' = "open_pending"
  /\ UNCHANGED <<others, persistent, exc, messages, i, slack_content, documents, j,
                 graph_docs, err_msg, loaded, invoked>>

\* open(checkpoint_path, "w") truncates the file
OpenFile(at, next) ==
  /\ pc = at
  /\ disk' = Truncated
  /\ pc' = next
  /\ UNCHANGED <<others, input, outcome, graph, run, prev_end, everDone, exc, memory>>

\* json.dump and the close of the with block: the whole ledger is on disk
DumpFileKeepsOld(at, next, step) ==
  /\ pc = at
  /\ pc' = next
  /\ i' = i + step
  /\ UNCHANGED <<others, persistent, exc, messages, checkpoint, slack_content,
                 documents, j, graph_docs, err_msg, loaded, started,
                 invoked>>

DumpFile(at, next, step) ==
  /\ pc = at
  /\ disk' = Complete(checkpoint)
  /\ everDone' = everDone \cup
        { id \in DOMAIN checkpoint : checkpoint[id].status = "done" }
  /\ pc' = next
  /\ i' = i + step
  /\ UNCHANGED <<others, input, outcome, graph, run, prev_end, exc, messages,
                 checkpoint, slack_content, documents, j, graph_docs,
                 err_msg, loaded, started, invoked>>

OpenPending == OpenFile("open_pending", "dump_pending")     \* line 109

DumpPendingSkipped == DumpFileKeepsOld("dump_pending", "build", 0)

DumpPending == DumpFile("dump_pending", "build", 0)         \* line 110

\* lines 112-145: build slack_content and split it into documents
ContentBase ==
  IF msg.text # EmptyText THEN Bound(MergeText(msg.text, msg_id))
  ELSE slack_content

PrepareOk ==
  /\ pc = "build"
  /\ ContentBase.bound
  /\ LET content == AppendReplies(ContentBase.paras, msg.thread_replies,
                                  msg_id)
     IN /\ slack_content' = Bound(content)
        /\ documents' = SplitContent(content)
  /\ j' = 1
  /\ graph_docs' = <<>>
  /\ pc' = "extract"
  /\ UNCHANGED <<others, persistent, exc, messages, checkpoint, i, err_msg, loaded,
                 started, invoked>>

\* slack_content is read (line 121 or 124) before it was ever assigned
PrepareNameError ==
  /\ pc = "build"
  /\ ~ContentBase.bound
  /\ pc' = "aborted"
  /\ exc' = "NameError"
  /\ UNCHANGED <<others, persistent, memory>>

\* lines 150-154: one call of convert_to_graph_documents
ExtractOk ==
  /\ pc = "extract"
  /\ ~(outcome[msg_id] = "extract_fail" /\ j = Len(documents))
  /\ invoked' = invoked \cup {msg_id}
  /\ graph_docs' = Append(graph_docs, documents[j])
  /\ j' = j + 1
  /\ pc' = IF j = Len(documents) THEN "graph_write" ELSE "extract"
  /\ UNCHANGED <<others, persistent, exc, messages, checkpoint, i, slack_content,
                 documents, err_msg, loaded, started>>

ExtractRaisesIgnored ==
  /\ pc = "extract"
  /\ outcome[msg_id] = "extract_fail" /\ j = Len(documents)
  /\ invoked' = invoked \cup {msg_id}
  /\ pc' = "graph_write"
  /\ UNCHANGED <<others, persistent, exc, messages, checkpoint, i, slack_content,
                 documents, j, graph_docs, err_msg, loaded, started>>

ExtractRaises ==
  /\ pc = "extract"
  /\ outcome[msg_id] = "extract_fail" /\ j = Len(documents)
  /\ invoked' = invoked \cup {msg_id}
  /\ err_msg' = "extraction failed"
  /\ pc' = "mark_error"
  /\ UNCHANGED <<others, persistent, exc, messages, checkpoint, i, slack_content,
                 documents, j, graph_docs, loaded, started>>

\* line 157: graph.add_graph_documents
GraphWriteOk ==
  /\ pc = "graph_write"
  /\ outcome[msg_id] # "graph_fail"
  /\ graph' = [graph EXCEPT ![msg_id] = @ + 1]
  /\ pc' = "mark_done"
  /\ UNCHANGED <<others, input, outcome, disk, run, prev_end, everDone, exc, memory>>

GraphWriteRaises ==
  /\ pc = "graph_write"
  /\ outcome[msg_id] = "graph_fail"
  /\ err_msg' = "graph write failed"
  /\ pc' = "mark_error"
  /\ UNCHANGED <<others, persistent, exc, messages, checkpoint, i, slack_content,
                 documents, j, graph_docs, loaded, started, invoked>>

\* line 160
MarkDone ==
  /\ pc = "mark_done"
  /\ checkpoint' = Put(checkpoint, msg_id, DoneEntry)
  /\ pc' = "open_done"
  /\ UNCHANGED <<others, persistent, exc, messages, i, slack_content, documents, j,
                 graph_docs, err_msg, loaded, started, invoked>>

OpenDone == OpenFile("open_done", "dump_done")              \* line 161

DumpDoneSkipped == DumpFileKeepsOld("dump_done", "loop", 1)

DumpDone == DumpFile("dump_done", "loop", 1)                \* line 162

MarkErrorLeavesPending ==
  /\ pc = "mark_error"
  /\ pc' = "open_error"
  /\ UNCHANGED <<others, persistent, exc, messages, checkpoint, i, slack_content,
                 documents, j, graph_docs, err_msg, loaded, started, invoked>>

\* lines 164-168
MarkError ==
  /\ pc = "mark_error"
  /\ checkpoint' = Put(checkpoint, msg_id, ErrorEntry(err_msg))
  /\ pc' = "open_error"
  /\ UNCHANGED <<others, persistent, exc, messages, i, slack_content, documents, j,
                 graph_docs, err_msg, loaded, started, invoked>>

OpenError == OpenFile("open_error", "dump_error")           \* line 169
DumpError == DumpFile("dump_error", "loop", 1)              \* lines 170-172

\* ------------------------------------------------- crashes and restarts
Running ==
  pc \in {"loop", "open_pending", "dump_pending", "build", "extract",
          "graph_write", "mark_done", "open_done", "dump_done",
          "mark_error", "open_error", "dump_error"}

Stopped == pc \in {"crashed", "finished", "aborted"}

\* the process is killed: memory is lost, the file and the graph stay
Crash ==
  /\ Running
  /\ pc' = "crashed"
  /\ ResetMemory
  /\ UNCHANGED <<others, persistent, exc>>

\* the script is executed again over the same input file
Restart ==
  /\ Stopped
  /\ run < MaxRuns
  /\ run' = run + 1
  /\ prev_end' = pc
  /\ pc' = "start"
  /\ exc' = "none"
  /\ ResetMemory
  /\ UNCHANGED <<others, input, outcome, disk, graph, everDone>>

Next ==
  \/ SortFails \/ LoadOk \/ LoadFails
  \/ Finish \/ SkipNoId \/ SkipDone \/ MarkPending
  \/ OpenPending \/ DumpPending
  \/ PrepareOk \/ PrepareNameError
  \/ ExtractOk \/ ExtractRaises
  \/ GraphWriteOk \/ GraphWriteRaises
  \/ MarkDone \/ OpenDone \/ DumpDone
  \/ MarkError \/ OpenError \/ DumpError
  \/ Crash \/ Restart

Spec == Init /\ [][Next]_vars

TypeOK ==
  /\ disk.state \in {"nofile", "truncated", "complete"}
  /\ run \in 1..MaxRuns
  /\ \A id \in DOMAIN checkpoint :
        checkpoint[id].status \in {"pending", "done", "error"}

\* ========================================================== properties
AtWork == pc \in {"extract", "graph_write"}

Last(seq) == seq[Len(seq)]

\* The ledger a single execution leaves behind when nothing interrupts it,
\* started from ledger with slack_content as given (the loop of lines
\* 99-172 run to its end or to its first uncaught exception).
RECURSIVE RunFrom(_, _, _, _)
RunFrom(ms, k, ledger, content) ==
  IF k > Len(ms) THEN ledger
  ELSE LET m == ms[k]
           id == IdOf(m)
           base == IF m.text # EmptyText THEN Bound(MergeText(m.text, id))
                   ELSE content
       IN IF id = NoTimestamp \/ StatusOf(ledger, id) = "done"
            THEN RunFrom(ms, k + 1, ledger, content)
          ELSE IF ~base.bound
            THEN Put(ledger, id, PendingEntry)
          ELSE RunFrom(ms, k + 1,
                 Put(ledger, id,
                     CASE outcome[id] = "ok" -> DoneEntry
                       [] outcome[id] = "extract_fail"
                            -> ErrorEntry("extraction failed")
                       [] outcome[id] = "graph_fail"
                            -> ErrorEntry("graph write failed")),
                 Bound(AppendReplies(base.paras, m.thread_replies, id)))

UninterruptedLedger ==
  IF SortRaises(input) THEN EmptyLedger
  ELSE RunFrom(SortMessages(input), 1, EmptyLedger, Unbound)

\* RunFrom agrees with the first execution when nothing interrupts it
FirstRunMatchesUninterrupted ==
  (run = 1 /\ pc \in {"finished", "aborted"})
     => disk.data = UninterruptedLedger

\* C1: once an item's entry in the checkpoint file is done, the file keeps
\* showing it as done and no execution invokes extraction or the graph
\* write for that item again.
C1_DoneIsFinal ==
  \A id \in everDone :
     /\ disk.state = "complete"
     /\ StatusOf(disk.data, id) = "done"
     /\ ~(AtWork /\ msg_id = id)

\* the part of C1 about the unit of work alone
DoneNeverReinvoked == \A id \in everDone : ~(AtWork /\ msg_id = id)

\* C2: across runs, crashes and restarts the graph write of an item
\* completes successfully at most once.
C2_AtMostOneGraphWrite == \A id \in Ids : graph[id] <= 1

\* C3: a failure of any step of an item's processing is caught and turned
\* into an error entry; no item's failure ends the run with an uncaught
\* exception.
C3_ItemFailureNeverAbortsRun == ~(pc = "aborted" /\ exc = "NameError")

\* C4: while extraction or the graph write of an item is under way, the
\* checkpoint file is complete and shows that item as pending.
C4_PendingPersistedBeforeWork ==
  AtWork => /\ disk.state = "complete"
            /\ StatusOf(disk.data, msg_id) = "pending"

C4_Witness ==
  /\ pc = "extract"
  /\ StatusOf(loaded, msg_id) = "error"
  /\ StatusOf(disk.data, msg_id) = "pending"

\* C5: at every instant, also in the middle of a ledger write, the
\* checkpoint file holds a complete ledger.
C5_LedgerWriteIsAtomic == disk.state # "truncated"

\* C6: wherever the run continues after a transition to pending, done or
\* error, the checkpoint file equals the in-memory ledger.
AfterTransition ==
  \/ pc \in {"build", "extract", "graph_write", "mark_done", "mark_error"}
  \/ pc \in {"loop", "finished"} /\ started # <<>>

C6_DiskNeverLags == AfterTransition => disk = Complete(checkpoint)

C6_Witness ==
  /\ pc = "loop"
  /\ Len(started) = 2
  /\ StatusOf(checkpoint, started[1]) = "error"
  /\ StatusOf(checkpoint, started[2]) = "done"
  /\ disk = Complete(checkpoint)

\* C7: a re-run of a batch that ran to its end invokes the unit of work
\* for exactly the items whose status it loaded as not done.
NotDoneAtStart == { id \in ItemIds(input) : StatusOf(loaded, id) # "done" }

C7_RerunRetriesExactlyNotDone ==
  (/\ run >= 2
   /\ prev_end = "finished"
   /\ pc \in {"finished", "aborted"})
     => invoked = NotDoneAtStart

\* C8: a run interrupted at any point and then re-run ends with the
\* ledger of a single uninterrupted run over the same items.
C8_RerunConverges ==
  (/\ run = 2
   /\ prev_end = "crashed"
   /\ pc \in {"finished", "aborted"})
     => /\ disk.state # "truncated"
        /\ disk.data = UninterruptedLedger

\* C9: a run starts items one at a time in ascending timestamp order, and
\* when it marks an item pending, every item it started before has its
\* done or error entry in the complete checkpoint file.
C9_SequentialInOrder ==
  [][Len(started') = Len(started) + 1 =>
       \A k \in 1..Len(started) :
          /\ started[k] < Last(started')
          /\ disk.state = "complete"
          /\ StatusOf(disk.data, started[k]) \in {"done", "error"}]_vars

C9_Witness ==
  /\ Len(started) = 2
  /\ Len(input) = 2
  /\ input[1].timestamp > input[2].timestamp
  /\ input[2].timestamp # NoTimestamp
  /\ pc = "build"

\* C13: a record whose timestamp is missing or empty is skipped without
\* an error: the run does not end with an exception raised for it, and no
\* ledger entry or unit of work exists for it.
C13_NoIdRecordSkippedSilently ==
  /\ ~(pc = "aborted" /\ exc = "ValueError")
  /\ DOMAIN checkpoint \subseteq Ids
  /\ AtWork => msg_id \in Ids

\* the part of C13 that holds: a record without the key is skipped
MissingIdSkipped ==
  /\ DOMAIN checkpoint \subseteq Ids
  /\ AtWork => msg_id \in Ids
  /\ (pc = "finished" /\ run = 1) =>
        \A id \in ItemIds(input) :
           StatusOf(checkpoint, id) \in {"done", "error"}

\* C20: the text submitted to the extraction backend for an item consists
\* of paragraphs of that item's own record only.
C20_OnlyOwnText ==
  pc = "extract" =>
     \A k \in 1..Len(documents[j]) : documents[j][k].owner = msg_id

\* C10: every sub-unit submitted to the extraction backend has at most
\* token_limit tokens.
C10_SubUnitsWithinLimit ==
  pc = "extract" => Tokens(documents[j]) <= token_limit

\* ======================================================================
\* The other programs.  In their specifications the batch run is not
\* executing: its variables stay as below.
BatchIdle ==
  /\ input = <<>>
  /\ outcome = [id \in Ids |-> "ok"]
  /\ disk = NoFile
  /\ graph = [id \in Ids |-> 0]
  /\ run = 1
  /\ prev_end = "none"
  /\ everDone = {}
  /\ pc = "idle"
  /\ exc = "none"
  /\ FreshMemory

\* ============================================== paragraph packing alone
\* The loop of GraphBuilder.py lines 128-142, one iteration per step, on
\* texts that take the splitting branch (tokens > token_limit, line 127).
MaxParas == 4                         \* paragraphs of a text

TokChoices == {0, 1400, 1600}         \* token counts of a paragraph

PackTexts ==
  { ps \in UNION { [1..n -> { Para(t, 1) : t \in TokChoices }] :
                      n \in 1..MaxParas } :
       Tokens(ps) > token_limit }

PackInit ==
  /\ pack \in { [pc |-> "loop", paragraphs |-> ps, k |-> 1,
                 current_chunk |-> <<>>, current_tokens |-> 0,
                 documents |-> <<>>] : ps \in PackTexts }
  /\ dp = Idle /\ norm = Idle /\ rag = Idle /\ vs = Idle
  /\ BatchIdle

PackRest == UNCHANGED <<batch_vars, dp, norm, rag, vs>>

PackPara == pack.paragraphs[pack.k]

\* line 133
PackFits == pack.current_tokens + PackPara.tok < token_limit

\* lines 137-138 and 141-142
PackFlushed ==
  IF pack.current_chunk # <<>>
    THEN Append(pack.documents, Strip(pack.current_chunk))
    ELSE pack.documents

\* lines 133-135
PackAppend ==
  /\ pack.pc = "loop"
  /\ pack.k <= Len(pack.paragraphs)
  /\ PackFits
  /\ pack' = [pack EXCEPT
                !.current_chunk = Append(@, PackPara),
                !.current_tokens = @ + PackPara.tok,
                !.k = @ + 1]
  /\ PackRest

PackFlushResetsCount ==
  /\ pack.pc = "loop"
  /\ pack.k <= Len(pack.paragraphs)
  /\ ~PackFits
  /\ pack' = [pack EXCEPT
                !.documents = PackFlushed,
                !.current_chunk = <<PackPara>>,
                !.current_tokens = 0,
                !.k = @ + 1]
  /\ PackRest

PackFlushDropsPara ==
  /\ pack.pc = "loop"
  /\ pack.k <= Len(pack.paragraphs)
  /\ ~PackFits
  /\ pack' = [pack EXCEPT
                !.documents = PackFlushed,
                !.current_chunk = <<>>,
                !.current_tokens = 0,
                !.k = @ + 1]
  /\ PackRest

\* lines 136-140
PackFlush ==
  /\ pack.pc = "loop"
  /\ pack.k <= Len(pack.paragraphs)
  /\ ~PackFits
  /\ pack' = [pack EXCEPT
                !.documents = PackFlushed,
                !.current_chunk = <<PackPara>>,
                !.current_tokens = PackPara.tok,
                !.k = @ + 1]
  /\ PackRest

\* lines 141-142
PackEnd ==
  /\ pack.pc = "loop"
  /\ pack.k > Len(pack.paragraphs)
  /\ pack' = [pack EXCEPT !.documents = PackFlushed, !.pc = "done"]
  /\ PackRest

PackNext == PackAppend \/ PackFlush \/ PackEnd

PackSpec == PackInit /\ [][PackNext]_vars

\* the loop taken step by step computes what SplitContent computes
PackLoopMatchesSplitContent ==
  pack.pc = "done" => pack.documents = SplitContent(pack.paragraphs)

RECURSIVE Concat(_)
Concat(docs) == IF docs = <<>> THEN <<>> ELSE docs[1] \o Concat(Tail(docs))

IsNonEmptyPara(p) == p.tok > 0
NonEmptyParas(ps) == SelectSeq(ps, IsNonEmptyPara)

\* C11 as stated: the chunks, taken in emission order, contain every
\* paragraph of the text once, unsplit and in the original order.
C11_AllParagraphsPreserved ==
  pack.pc = "done" => Concat(pack.documents) = pack.paragraphs

\* C11 as amended: the chunks, taken in emission order, contain every
\* non-empty paragraph of the text once, unsplit and in the original
\* order; empty paragraphs at the ends of a chunk are removed by strip().
C11_NonEmptyParagraphsPreserved ==
  pack.pc = "done" =>
     NonEmptyParas(Concat(pack.documents)) = NonEmptyParas(pack.paragraphs)

C11_Witness ==
  /\ pack.pc = "done"
  /\ Len(pack.documents) >= 2
  /\ \E d \in 1..Len(pack.documents) :
        Len(NonEmptyParas(pack.documents[d])) >= 2
  /\ Concat(pack.documents) # pack.paragraphs

\* ================================================================ strings
\* A string is the sequence of its characters.  "\n" is the newline, and
\* Label stands for the fixed text "Attached file summary: " (it holds no
\* newline, markup character or entity).
Label == "Attached file summary: "
Whitespace == {" ", "\n"}
MarkupChars == {"*", "_", "~"}

EntLt == <<"&", "l", "t", ";">>
EntGt == <<"&", "g", "t", ";">>
EntAmp == <<"&", "a", "m", "p", ";">>
EntQuot == <<"&", "q", "u", "o", "t", ";">>

StartsWithAt(s, k, pat) ==
  /\ k + Len(pat) - 1 <= Len(s)
  /\ SubSeq(s, k, k + Len(pat) - 1) = pat

\* str.replace(pat, rep): leftmost non-overlapping occurrences
RECURSIVE ReplaceFrom(_, _, _, _)
ReplaceFrom(s, k, pat, rep) ==
  IF k > Len(s) THEN <<>>
  ELSE IF StartsWithAt(s, k, pat)
         THEN rep \o ReplaceFrom(s, k + Len(pat), pat, rep)
         ELSE <<s[k]>> \o ReplaceFrom(s, k + 1, pat, rep)

Replace(s, pat, rep) == ReplaceFrom(s, 1, pat, rep)

IsNotMarkup(c) == c \notin MarkupChars
RemoveMarkup(s) == SelectSeq(s, IsNotMarkup)

RECURSIVE LStripWs(_)
LStripWs(s) ==
  IF s # <<>> /\ s[1] \in Whitespace THEN LStripWs(Tail(s)) ELSE s

RECURSIVE RStripWs(_)
RStripWs(s) ==
  IF s # <<>> /\ s[Len(s)] \in Whitespace
    THEN RStripWs(SubSeq(s, 1, Len(s) - 1)) ELSE s

\* str.strip()
StripWs(s) == RStripWs(LStripWs(s))

\* sep.join(parts)
RECURSIVE Join(_, _)
Join(parts, sep) ==
  IF parts = <<>> THEN <<>>
  ELSE IF Len(parts) = 1 THEN parts[1]
  ELSE parts[1] \o sep \o Join(Tail(parts), sep)

\* ------------------------------------------------------ markup cleaners
\* the three replace calls shared by both cleaners
DecodeEntities(s) ==
  Replace(Replace(Replace(s, EntLt, <<"<">>), EntGt, <<">">>),
          EntAmp, <<"&">>)

\* DataProcessor._clean_slack_markup
CleanSlackMarkup(text) == StripWs(DecodeEntities(RemoveMarkup(text)))

\* the lines for the attachments of a message: GraphBuilder's
\* extract_files_links, and the loop of DataProcessor._merge_message
RECURSIVE SummaryLines(_)
SummaryLines(files) ==
  IF files = <<>> THEN <<>>
  ELSE (IF files[1].summary # <<>>
          THEN << <<Label>> \o files[1].summary >> ELSE <<>>)
       \o SummaryLines(Tail(files))

\* GraphBuilder.extract_merge_text
ExtractMergeText(text, m) ==
  LET slack_text == DecodeEntities(RemoveMarkup(text))
      extra_info_lines == SummaryLines(m.files)
  IN IF extra_info_lines # <<>>
       THEN StripWs(slack_text) \o <<"\n">> \o Join(extra_info_lines, <<"\n">>)
       ELSE slack_text

\* ------------------------------------------------ one call of a cleaner
MaxPieces == 3                        \* pieces a text is put together from

Pieces ==
  { <<"a">>, <<" ">>, <<"*">>, <<"_">>, <<"~">>, <<"&">>,
    <<"l", "t", ";">>, <<"a", "m", "p", ";">>,
    EntLt, EntGt, EntAmp, EntQuot }

RECURSIVE TextsOf(_)
TextsOf(n) ==
  IF n = 0 THEN { <<>> }
  ELSE LET shorter == TextsOf(n - 1)
       IN shorter \cup { t \o p : t \in shorter, p \in Pieces }

NormCalls(n) ==
  { [pc |-> "call", fn |-> "_clean_slack_markup", text |-> t,
     files |-> <<>>, result |-> <<>>] : t \in TextsOf(n) }
  \cup
  { [pc |-> "call", fn |-> "extract_merge_text", text |-> t,
     files |-> f, result |-> <<>>] :
       t \in TextsOf(n) \ { <<>> },
       f \in { <<>>, << [summary |-> <<"s">>] >> } }

NormInit ==
  /\ norm \in NormCalls(MaxPieces)
  /\ pack = Idle /\ dp = Idle /\ rag = Idle /\ vs = Idle
  /\ BatchIdle

NormRest == UNCHANGED <<batch_vars, pack, dp, rag, vs>>

CallCleanSlackMarkup ==
  /\ norm.pc = "call"
  /\ norm.fn = "_clean_slack_markup"
  /\ norm' = [norm EXCEPT !.pc = "done",
                          !.result = CleanSlackMarkup(norm.text)]
  /\ NormRest

CallExtractMergeText ==
  /\ norm.pc = "call"
  /\ norm.fn = "extract_merge_text"
  /\ norm' = [norm EXCEPT !.pc = "done",
                          !.result = ExtractMergeText(norm.text, norm)]
  /\ NormRest

NormNext == CallCleanSlackMarkup \/ CallExtractMergeText

NormSpec == NormInit /\ [][NormNext]_vars

\* What the Normalizer is to return for a text: markup characters removed,
\* the given entities decoded in one pass from left to right, and the
\* white space at both ends removed.
RECURSIVE DecodeOnePass(_, _, _)
DecodeOnePass(s, k, table) ==
  IF k > Len(s) THEN <<>>
  ELSE IF \E e \in table : StartsWithAt(s, k, e[1])
         THEN LET e == CHOOSE x \in table : StartsWithAt(s, k, x[1])
              IN <<e[2]>> \o DecodeOnePass(s, k + Len(e[1]), table)
         ELSE <<s[k]>> \o DecodeOnePass(s, k + 1, table)

ThreeEntities == { <<EntLt, "<">>, <<EntGt, ">">>, <<EntAmp, "&">> }
FourEntities == ThreeEntities \cup { <<EntQuot, "\"">> }

Normalized(text, table) ==
  StripWs(DecodeOnePass(RemoveMarkup(text), 1, table))

\* the cleaned text within the result of a call
NormOutput ==
  IF norm.fn = "extract_merge_text" /\ SummaryLines(norm.files) # <<>>
    THEN SubSeq(norm.result, 1,
                Len(norm.result) - 1
                  - Len(Join(SummaryLines(norm.files), <<"\n">>)))
    ELSE norm.result

\* C18: the output of the Normalizer is the input with the markup
\* characters *, _, ~ removed, the four HTML entities decoded and the
\* surrounding white space trimmed.
C18_NormalizerOutput ==
  norm.pc = "done" => NormOutput = Normalized(norm.text, FourEntities)

\* what holds of both cleaners: markup removed, &lt; &gt; &amp; decoded
CleanersDecodeThree ==
  norm.pc = "done" =>
     StripWs(NormOutput) = Normalized(norm.text, ThreeEntities)

\* what holds of _clean_slack_markup: the above, trimmed
CleanSlackMarkupTrims ==
  (norm.pc = "done" /\ norm.fn = "_clean_slack_markup") =>
     norm.result = Normalized(norm.text, ThreeEntities)

\* C18 with three entities: fails for extract_merge_text, which does not
\* trim a text without attachments
C18_ThreeEntitiesTrimmed ==
  norm.pc = "done" => NormOutput = Normalized(norm.text, ThreeEntities)

\* ========================================================= DataProcessor
\* DataProcessor.main: sort, flatten every thread, chunk every document.
MaxReplies == 2                       \* thread_replies of a message
MaxChunks == 2                        \* chunks split_text returns for a text

DpTextChoices == { <<>>, <<"a">>, <<"*">> }
DpFileChoices == { <<>>, << [summary |-> <<"s">>] >>, << [summary |-> <<>>] >> }
DpNodes == { [text |-> t, files |-> f] : t \in DpTextChoices, f \in DpFileChoices }
DpReplyLists == UNION { [1..n -> DpNodes] : n \in 0..MaxReplies }

DpMessage(ts, node, replies) ==
  [timestamp |-> ts, text |-> node.text, files |-> node.files,
   thread_replies |-> replies]

DpOther == DpMessage(2, [text |-> <<"b">>, files |-> <<>>], <<>>)

DpInputs ==
  { << DpMessage(ts, n, rs) >> :
       ts \in {1, NoTimestamp, EmptyTimestamp}, n \in DpNodes, rs \in DpReplyLists }
  \cup
  { << DpOther, DpMessage(1, n, rs) >> : n \in DpNodes, rs \in DpReplyLists }

\* DataProcessor._merge_message
MergeMessage(m) ==
  LET main_text == m.text
      parts == (IF main_text # <<>> THEN << CleanSlackMarkup(main_text) >>
                                    ELSE <<>>)
               \o SummaryLines(m.files)
  IN Join(parts, <<"\n">>)

IsNonEmptyStr(str) == str # <<>>

\* the root and the replies of a thread, in the order of the record
NodesOf(m) == << [text |-> m.text, files |-> m.files] >> \o m.thread_replies

\* DataProcessor._flatten_messages, the text yielded for one message
FlattenText(m) ==
  LET sections == [k \in 1..Len(NodesOf(m)) |-> MergeMessage(NodesOf(m)[k])]
  IN Join(SelectSeq(sections, IsNonEmptyStr), <<"\n", "\n">>)

DpInit ==
  /\ dp \in { [pc |-> "sort", messages |-> ms, idx |-> 1, flat_docs |-> <<>>,
               yielded |-> <<>>, d |-> 1, chunked |-> <<>>] : ms \in DpInputs }
  /\ pack = Idle /\ norm = Idle /\ rag = Idle /\ vs = Idle
  /\ BatchIdle

DpRest == UNCHANGED <<batch_vars, pack, norm, rag, vs>>

DpSort ==
  /\ dp.pc = "sort"
  /\ ~SortRaises(dp.messages)
  /\ dp' = [dp EXCEPT !.pc = "flatten", !.messages = SortMessages(dp.messages)]
  /\ DpRest

DpSortFails ==
  /\ dp.pc = "sort"
  /\ SortRaises(dp.messages)
  /\ dp' = [dp EXCEPT !.pc = "ValueError"]
  /\ DpRest

DpSkipNoId ==
  /\ dp.pc = "flatten"
  /\ dp.idx <= Len(dp.messages)
  /\ IdOf(dp.messages[dp.idx]) = NoTimestamp
  /\ dp' = [dp EXCEPT !.idx = dp.idx + 1]
  /\ DpRest

DpYield ==
  /\ dp.pc = "flatten"
  /\ dp.idx <= Len(dp.messages)
  /\ IdOf(dp.messages[dp.idx]) # NoTimestamp
  /\ dp' = [dp EXCEPT
              !.flat_docs = Append(dp.flat_docs,
                                   [timestamp |-> IdOf(dp.messages[dp.idx]),
                                    text |-> FlattenText(dp.messages[dp.idx])]),
              !.yielded = Append(dp.yielded, dp.idx),
              !.idx = dp.idx + 1]
  /\ DpRest

DpFlattened ==
  /\ dp.pc = "flatten"
  /\ dp.idx > Len(dp.messages)
  /\ dp' = [dp EXCEPT !.pc = "chunk"]
  /\ DpRest

\* splitter.split_text belongs to a library: the number of chunks it
\* returns for a text is any number; chunk c of document d is [doc, part].
DpChunkDocument ==
  /\ dp.pc = "chunk"
  /\ dp.d <= Len(dp.flat_docs)
  /\ \E n \in 0..MaxChunks :
       dp' = [dp EXCEPT
                !.chunked = dp.chunked \o
                   [c \in 1..n |-> [timestamp |-> dp.flat_docs[dp.d].timestamp,
                                    text |-> [doc |-> dp.d, part |-> c]]],
                !.d = dp.d + 1]
  /\ DpRest

DpWrite ==
  /\ dp.pc = "chunk"
  /\ dp.d > Len(dp.flat_docs)
  /\ dp' = [dp EXCEPT !.pc = "written"]
  /\ DpRest

DpNext ==
  \/ DpSort \/ DpSortFails \/ DpSkipNoId \/ DpYield \/ DpFlattened
  \/ DpChunkDocument \/ DpWrite

DpSpec == DpInit /\ [][DpNext]_vars

\* str.split(sep)
RECURSIVE SplitFrom(_, _, _, _)
SplitFrom(str, k, sep, cur) ==
  IF k > Len(str) THEN << cur >>
  ELSE IF StartsWithAt(str, k, sep)
         THEN << cur >> \o SplitFrom(str, k + Len(sep), sep, <<>>)
         ELSE SplitFrom(str, k + 1, sep, Append(cur, str[k]))

BlankLine == <<"\n", "\n">>

\* the sections read off a flattened text: the pieces between blank lines
SectionsIn(text) == IF text = <<>> THEN <<>> ELSE SplitFrom(text, 1, BlankLine, <<>>)

\* the section a node is to contribute: its cleaned text, if any is left,
\* and then one line per non-empty attachment summary
SectionOf(n) ==
  Join((IF CleanSlackMarkup(n.text) # <<>>
          THEN << CleanSlackMarkup(n.text) >> ELSE <<>>)
       \o SummaryLines(n.files), <<"\n">>)

SectionsOf(m) ==
  SelectSeq([k \in 1..Len(NodesOf(m)) |-> SectionOf(NodesOf(m)[k])],
            IsNonEmptyStr)

\* C12: a flattened thread is keyed by the root's id, and its sections,
\* read between single blank lines, are the root's section and then one
\* section per reply in input order, the empty ones left out, none
\* reordered or dropped as a duplicate.
C12_FlattenSections ==
  \A k \in 1..Len(dp.flat_docs) :
     LET m == dp.messages[dp.yielded[k]]
     IN /\ dp.flat_docs[k].timestamp = m.timestamp
        /\ SectionsIn(dp.flat_docs[k].text) = SectionsOf(m)

\* the part of C12 that holds: one document per thread with an id, in
\* order, and the nodes of a thread in the order of the record; the
\* section of a node is what _merge_message returns for it.
FlattenKeepsOrder ==
  /\ \A k \in 1..Len(dp.flat_docs) :
        LET m == dp.messages[dp.yielded[k]]
            merged == [q \in 1..Len(NodesOf(m)) |-> MergeMessage(NodesOf(m)[q])]
        IN /\ dp.flat_docs[k].timestamp = m.timestamp
           /\ SectionsIn(dp.flat_docs[k].text) = SelectSeq(merged, IsNonEmptyStr)
  /\ \A k \in 1..(Len(dp.yielded) - 1) : dp.yielded[k] < dp.yielded[k + 1]

\* the part of C19 that the script itself decides: every chunk carries the
\* id of its document, and the chunks of a document are contiguous, in the
\* order of the documents
ChunksTaggedInOrder ==
  /\ \A c \in 1..Len(dp.chunked) :
        dp.chunked[c].timestamp = dp.flat_docs[dp.chunked[c].text.doc].timestamp
  /\ \A c \in 1..(Len(dp.chunked) - 1) :
        \/ dp.chunked[c].text.doc < dp.chunked[c + 1].text.doc
        \/ /\ dp.chunked[c].text.doc = dp.chunked[c + 1].text.doc
           /\ dp.chunked[c + 1].text.part = dp.chunked[c].text.part + 1

\* ================================================= RagQuery and slack_bot
\* answer_query called by the command line harness ("call") or by the
\* handlers of slack_bot.py ("app_mention", "message"), one event at a time.
MaxDocs == 3                          \* documents a search returns at most
MaxK2 == 2                            \* largest k2 passed to rerank
MaxEvents == 2                        \* events handled in a behaviour

Queries == {"q1", "q2"}
ScoreValues == {1, 2}                 \* what reranker.predict may return
Kinds == {"call", "app_mention", "message"}
NoAnswer == [query |-> "none", context |-> <<>>]
NoPost == [text |-> NoAnswer]

Min(a, b) == IF a <= b THEN a ELSE b

\* sorted(zip(docs, scores), key=lambda x: x[1], reverse=True): a stable
\* sort, so candidates of equal score keep their order
RECURSIVE InsertRanked(_, _, _)
InsertRanked(ranked, c, scores) ==
  IF ranked = <<>> THEN << c >>
  ELSE IF scores[ranked[Len(ranked)]] >= scores[c]
         THEN Append(ranked, c)
         ELSE Append(InsertRanked(SubSeq(ranked, 1, Len(ranked) - 1), c, scores),
                     ranked[Len(ranked)])

RECURSIVE RankedFrom(_, _, _, _)
RankedFrom(docs, scores, k, acc) ==
  IF k > Len(docs) THEN acc
  ELSE RankedFrom(docs, scores, k + 1, InsertRanked(acc, docs[k], scores))

Ranked(docs, scores) == RankedFrom(docs, scores, 1, <<>>)

RECURSIVE Reverse(_)
Reverse(q) == IF q = <<>> THEN <<>> ELSE Append(Reverse(Tail(q)), q[1])

RerankAscending(docs, scores, k2) ==
  SubSeq(Reverse(Ranked(docs, scores)), 1, Min(k2, Len(docs)))

\* RagQuery.rerank, after the scores are known: ranked[:k2]
Rerank(docs, scores, k2) ==
  SubSeq(Ranked(docs, scores), 1, Min(k2, Len(docs)))

RagStart ==
  [pc |-> "wait", events |-> 0, kind |-> "none", query |-> "none",
   k1 |-> MaxDocs, k2 |-> 0, candidates |-> <<>>, scores |-> <<>>,
   top_docs |-> <<>>, answer |-> NoAnswer, predict_calls |-> 0,
   failed |-> "none", returned |-> NoAnswer, posts |-> 0,
   last_post |-> NoPost]

RagInit ==
  /\ rag = RagStart
  /\ pack = Idle /\ dp = Idle /\ norm = Idle /\ vs = Idle
  /\ BatchIdle

RagRest == UNCHANGED <<batch_vars, pack, dp, norm, vs>>

\* where a handler or the harness is through with an event
RagEnded == {"wait", "got", "raised_to_caller", "posted", "caught", "ignored"}

\* an event arrives; the locals of the handler are fresh.  The handlers
\* call answer_query with the default k2, the harness with any.
RagReceive ==
  /\ rag.pc \in RagEnded
  /\ rag.events < MaxEvents
  /\ \E kind \in Kinds, q \in Queries, k \in 0..MaxK2 :
       rag' = [RagStart EXCEPT
                 !.pc = IF kind = "message" THEN "message" ELSE "load",
                 !.events = rag.events + 1,
                 !.kind = kind, !.query = q, !.k2 = k,
                 !.last_post = rag.last_post]
  /\ RagRest

\* handle_message_events: no text, no user, a bot message, or no mention
MessageIgnored ==
  /\ rag.pc = "message"
  /\ rag' = [rag EXCEPT !.pc = "ignored"]
  /\ RagRest

\* handle_message_events with a mention: `text` is not a name of the
\* function or the module, the NameError is caught and logged
MessageNameError ==
  /\ rag.pc = "message"
  /\ rag' = [rag EXCEPT !.pc = "caught", !.failed = "NameError"]
  /\ RagRest

RagRaise(stage) == [rag EXCEPT !.pc = "raised", !.failed = stage]

LoadResources ==
  /\ rag.pc = "load"
  /\ rag' = [rag EXCEPT !.pc = "retrieve"]
  /\ RagRest

LoadResourcesRaises ==
  /\ rag.pc = "load"
  /\ rag' = RagRaise("load")
  /\ RagRest

\* vectordb.similarity_search(query, k=k1): at most k1 documents, named
\* by their rank in the search
Retrieve ==
  /\ rag.pc = "retrieve"
  /\ \E n \in 0..rag.k1 :
       rag' = [rag EXCEPT !.pc = "rerank", !.candidates = [c \in 1..n |-> c]]
  /\ RagRest

RetrieveRaises ==
  /\ rag.pc = "retrieve"
  /\ rag' = RagRaise("retrieve")
  /\ RagRest

RerankEmptyPredicts ==
  /\ rag.pc = "rerank"
  /\ rag.candidates = <<>>
  /\ rag' = [rag EXCEPT !.pc = "generate", !.top_docs = <<>>,
                        !.predict_calls = rag.predict_calls + 1]
  /\ RagRest

RerankEmpty ==
  /\ rag.pc = "rerank"
  /\ rag.candidates = <<>>
  /\ rag' = [rag EXCEPT !.pc = "generate", !.top_docs = <<>>]
  /\ RagRest

RerankPredict ==
  /\ rag.pc = "rerank"
  /\ rag.candidates # <<>>
  /\ \E scores \in [1..Len(rag.candidates) -> ScoreValues] :
       rag' = [rag EXCEPT !.pc = "generate", !.scores = scores,
                          !.predict_calls = rag.predict_calls + 1,
                          !.top_docs = Rerank(rag.candidates, scores, rag.k2)]
  /\ RagRest

RerankPredictRaises ==
  /\ rag.pc = "rerank"
  /\ rag.candidates # <<>>
  /\ rag' = [RagRaise("rerank") EXCEPT !.predict_calls = rag.predict_calls + 1]
  /\ RagRest

GenerateAnswer ==
  /\ rag.pc = "generate"
  /\ rag' = [rag EXCEPT !.pc = "returned",
                        !.answer = [query |-> rag.query, context |-> rag.top_docs]]
  /\ RagRest

GenerateAnswerRaises ==
  /\ rag.pc = "generate"
  /\ rag' = RagRaise("generate")
  /\ RagRest

\* the harness gets (answer, top_docs), or the exception
CallerGetsAnswer ==
  /\ rag.pc = "returned"
  /\ rag.kind = "call"
  /\ rag' = [rag EXCEPT !.pc = "got", !.returned = rag.answer]
  /\ RagRest

CallerGetsException ==
  /\ rag.pc = "raised"
  /\ rag.kind = "call"
  /\ rag' = [rag EXCEPT !.pc = "raised_to_caller"]
  /\ RagRest

\* handle_app_mention_events: chat_postMessage(channel_id, answer)
PostMessage ==
  /\ rag.pc = "returned"
  /\ rag.kind = "app_mention"
  /\ rag' = [rag EXCEPT !.pc = "posted", !.posts = rag.posts + 1,
                        !.last_post = [text |-> rag.answer]]
  /\ RagRest

PostMessageRaises ==
  /\ rag.pc = "returned"
  /\ rag.kind = "app_mention"
  /\ rag' = [rag EXCEPT !.pc = "caught", !.failed = "post"]
  /\ RagRest

MentionCatchPostsStale ==
  /\ rag.pc = "raised"
  /\ rag.kind = "app_mention"
  /\ rag' = [rag EXCEPT !.pc = "posted", !.posts = rag.posts + 1]
  /\ RagRest

\* handle_app_mention_events: except Exception, print and log
MentionCatch ==
  /\ rag.pc = "raised"
  /\ rag.kind = "app_mention"
  /\ rag' = [rag EXCEPT !.pc = "caught"]
  /\ RagRest

RagNext ==
  \/ RagReceive
  \/ MessageIgnored \/ MessageNameError
  \/ LoadResources \/ LoadResourcesRaises
  \/ Retrieve \/ RetrieveRaises
  \/ RerankEmpty \/ RerankPredict \/ RerankPredictRaises
  \/ GenerateAnswer \/ GenerateAnswerRaises
  \/ CallerGetsAnswer \/ CallerGetsException
  \/ PostMessage \/ PostMessageRaises \/ MentionCatch

RagSpec == RagInit /\ [][RagNext]_vars

Reranked == rag.pc = "generate"

\* C14: rerank returns min(k2, n) of its n candidates, each one of the
\* input and none twice, in descending order of score, and no candidate
\* left out scores higher than one returned.
C14_RerankTopK2 ==
  Reranked =>
     LET out == rag.top_docs
         n == Len(rag.candidates)
         chosen == { out[q] : q \in 1..Len(out) }
     IN /\ Len(out) = Min(rag.k2, n)
        /\ chosen \subseteq 1..n
        /\ Cardinality(chosen) = Len(out)
        /\ \A q \in 1..(Len(out) - 1) :
              rag.scores[out[q]] >= rag.scores[out[q + 1]]
        /\ \A c \in (1..n) \ chosen : \A d \in chosen :
              rag.scores[c] <= rag.scores[d]

C14_Witness ==
  /\ Reranked
  /\ Len(rag.candidates) = 3
  /\ rag.k2 = 2
  /\ rag.top_docs = <<3, 1>>

\* C15: rerank on an empty candidate list returns the empty list and does
\* not call reranker.predict.
C15_EmptyRerankNoScoring ==
  (Reranked /\ rag.candidates = <<>>) =>
     (rag.top_docs = <<>> /\ rag.predict_calls = 0)

C15_Witness ==
  /\ Reranked
  /\ rag.candidates = <<>>
  /\ rag.k2 > 0
  /\ rag.kind = "app_mention"

StageFailures == {"load", "retrieve", "rerank", "generate"}

\* C17: when a stage of answer_query fails, the call ends with the
\* exception at its caller, no answer is returned and none is posted for
\* that event; an answer that is posted is the one generated in the same
\* invocation from the text of the event.
C17_FailureSurfacedNoStaleAnswer ==
  /\ rag.failed \in StageFailures =>
        /\ rag.pc \in {"raised", "raised_to_caller", "caught"}
        /\ rag.answer = NoAnswer
        /\ rag.returned = NoAnswer
        /\ rag.posts = 0
  /\ rag.posts > 0 =>
        /\ rag.pc = "posted"
        /\ rag.posts = 1
        /\ rag.failed = "none"
        /\ rag.last_post.text = rag.answer
        /\ rag.answer.query = rag.query
        /\ rag.answer.context = rag.top_docs

C17_Witness ==
  /\ rag.pc = "caught"
  /\ rag.kind = "app_mention"
  /\ rag.failed = "generate"
  /\ rag.last_post # NoPost
  /\ rag.last_post.text.query # rag.query

\* ====================================================== VectorStoreSaver
\* build_vector_store: read and validate every input file, embed the texts
\* batch by batch, save the index.
MaxFiles == 2                         \* input files of a build
MaxRecs == 2                          \* records of an input file
MaxBatch == 2                         \* largest texts_per_batch

RecordShapes == {"ok", "no_timestamp", "no_text"}

\* a file is the list of the shapes of its records; the text and the
\* timestamp of record r of file f are both named by <<f, r>>
ShapeLists == UNION { [1..n -> RecordShapes] : n \in 0..MaxRecs }

VsInputs == UNION { [1..n -> ShapeLists] : n \in 1..MaxFiles }

\* _read_json_records: the schema test
ValidFile(data) == \A r \in 1..Len(data) : data[r] = "ok"

VsInit ==
  /\ vs \in { [pc |-> "read", input_paths |-> fs, texts_per_batch |-> b, p |-> 1,
               texts |-> <<>>, metadatas |-> <<>>, i |-> 0,
               vectordb |-> "None", calls |-> <<>>, saved |-> FALSE] :
              fs \in VsInputs, b \in 1..MaxBatch }
  /\ pack = Idle /\ dp = Idle /\ norm = Idle /\ rag = Idle
  /\ BatchIdle

VsRest == UNCHANGED <<batch_vars, pack, dp, norm, rag>>

VsGather(data, keep) ==
  LET recs == SelectSeq([r \in 1..Len(data) |-> <<vs.p, r>>],
                        LAMBDA rec : data[rec[2]] \in keep)
  IN [vs EXCEPT !.texts = vs.texts \o recs,
                !.metadatas = vs.metadatas \o
                     [r \in 1..Len(recs) |-> [timestamp |-> recs[r]]],
                !.p = vs.p + 1]

ReadFileNoValidation ==
  /\ vs.pc = "read"
  /\ vs.p <= Len(vs.input_paths)
  /\ vs' = VsGather(vs.input_paths[vs.p], {"ok", "no_timestamp"})
  /\ VsRest

ReadFile ==
  /\ vs.pc = "read"
  /\ vs.p <= Len(vs.input_paths)
  /\ ValidFile(vs.input_paths[vs.p])
  /\ vs' = VsGather(vs.input_paths[vs.p], RecordShapes)
  /\ VsRest

ReadFileRaises ==
  /\ vs.pc = "read"
  /\ vs.p <= Len(vs.input_paths)
  /\ ~ValidFile(vs.input_paths[vs.p])
  /\ vs' = [vs EXCEPT !.pc = "ValueError"]
  /\ VsRest

total == Len(vs.texts)

StartEmbedding ==
  /\ vs.pc = "read"
  /\ vs.p > Len(vs.input_paths)
  /\ vs' = [vs EXCEPT !.pc = "embed", !.i = 0]
  /\ VsRest

BatchOfSkipsOne(q) ==
  SubSeq(q, vs.i + 2, Min(vs.i + vs.texts_per_batch, Len(q)))

BatchOf(q) == SubSeq(q, vs.i + 1, Min(vs.i + vs.texts_per_batch, Len(q)))

EmbedBatch ==
  /\ vs.pc = "embed"
  /\ vs.i < total
  /\ vs' = [vs EXCEPT
              !.calls = Append(vs.calls,
                 [op |-> IF vs.vectordb = "None" THEN "from_texts" ELSE "add_texts",
                  texts |-> BatchOf(vs.texts),
                  metadatas |-> BatchOf(vs.metadatas)]),
              !.vectordb = "FAISS",
              !.i = vs.i + vs.texts_per_batch]
  /\ VsRest

\* the embedding backend raises: the exception ends the build
EmbedBatchRaises ==
  /\ vs.pc = "embed"
  /\ vs.i < total
  /\ vs' = [vs EXCEPT !.pc = "failed"]
  /\ VsRest

\* assert vectordb is not None, "No data embedded!"
AssertNoData ==
  /\ vs.pc = "embed"
  /\ vs.i >= total
  /\ vs.vectordb = "None"
  /\ vs' = [vs EXCEPT !.pc = "AssertionError"]
  /\ VsRest

SaveLocal ==
  /\ vs.pc = "embed"
  /\ vs.i >= total
  /\ vs.vectordb # "None"
  /\ vs' = [vs EXCEPT !.pc = "saved", !.saved = TRUE]
  /\ VsRest

VsNext ==
  \/ ReadFile \/ ReadFileRaises \/ StartEmbedding
  \/ EmbedBatch \/ EmbedBatchRaises \/ AssertNoData \/ SaveLocal

VsSpec == VsInit /\ [][VsNext]_vars

SomeFileInvalid ==
  \E f \in 1..Len(vs.input_paths) : ~ValidFile(vs.input_paths[f])

\* C16: when a record of an input file lacks timestamp or text, the build
\* ends with the error raised while that file is read: no embedding call
\* is made, so no text of the file is embedded, and no index is saved.
C16_SchemaErrorStopsBuild ==
  SomeFileInvalid =>
     /\ vs.pc \in {"read", "ValueError"}
     /\ vs.calls = <<>>
     /\ vs.vectordb = "None"
     /\ vs.saved = FALSE
     /\ (vs.pc = "ValueError" => ~ValidFile(vs.input_paths[vs.p]))

C16_Witness ==
  /\ vs.pc = "ValueError"
  /\ vs.p = 2
  /\ vs.texts # <<>>
  /\ \E r \in 1..Len(vs.input_paths[2]) : vs.input_paths[2][r] = "ok"

\* ============================================== the batch run, continued
MarkingDone == pc \in {"mark_done", "open_done", "dump_done"}
MarkingError == pc \in {"mark_error", "open_error", "dump_error"}
ExtractionFailed == MarkingError /\ err_msg = "extraction failed"

\* C21: an item gets status done only after all its sub-units were
\* extracted and merged and the graph write for them has returned; when
\* the extraction of a sub-unit fails, the attempt writes nothing to the
\* graph backend and the item gets status error.
C21_DoneAfterMergedGraphWrite ==
  /\ [](\A id \in Ids :
          (StatusOf(checkpoint, id) = "done" \/ StatusOf(disk.data, id) = "done")
             => graph[id] >= 1)
  /\ [](MarkingDone => (graph_docs = documents /\ graph[msg_id] >= 1))
  /\ [](ExtractionFailed =>
          /\ Len(graph_docs) < Len(documents)
          /\ pc # "mark_error" => StatusOf(checkpoint, msg_id) = "error")
  /\ [][/\ graph' # graph =>
             /\ pc = "graph_write" /\ pc' = "mark_done"
             /\ graph_docs = documents
             /\ graph' = [graph EXCEPT ![msg_id] = @ + 1]
        /\ (\E id \in Ids : /\ StatusOf(checkpoint', id) = "done"
                            /\ StatusOf(checkpoint, id) # "done") =>
             \/ pc = "mark_done" /\ StatusOf(checkpoint', msg_id) = "done"
             \/ pc = "start"
        /\ (pc = "extract" /\ pc' \notin {"extract", "graph_write"} /\ Running') =>
             pc' = "mark_error"
        /\ (MarkingError /\ Running') =>
             /\ graph' = graph
             /\ pc' \in {"open_error", "dump_error", "loop"}
             /\ pc' = "loop" => /\ StatusOf(checkpoint, msg_id) = "error"
                                /\ StatusOf(disk'.data, msg_id) = "error"]_vars

C21_Witness ==
  /\ ExtractionFailed
  /\ pc = "dump_error"
  /\ Len(documents) = 2
  /\ Len(graph_docs) = 1
  /\ graph[msg_id] = 0
  /\ StatusOf(checkpoint, msg_id) = "error"

\* ============================================ paragraph packing, continued
\* C22: in the packing loop current_tokens is the sum of the token counts
\* of the paragraphs in current_chunk; a flush leaves the chunk holding
\* the paragraph that did not fit and the count at that paragraph's count.
C22_RunningCountIsChunkSum ==
  /\ [](pack.pc \in {"loop", "done"} =>
          pack.current_tokens = SumTok(pack.current_chunk))
  /\ [][(pack.pc = "loop" /\ pack.k <= Len(pack.paragraphs) /\ ~PackFits) =>
          /\ pack'.current_chunk = <<PackPara>>
          /\ pack'.current_tokens = PackPara.tok]_vars

C22_Witness ==
  /\ pack.pc = "loop"
  /\ pack.documents # <<>>
  /\ Len(pack.current_chunk) = 1
  /\ pack.current_tokens = 1600
  /\ pack.current_chunk = <<pack.paragraphs[pack.k - 1]>>

\* ================================================== index build, continued
\* the texts of all input files in input order, read off the input
VsAllTexts ==
  Concat([f \in 1..Len(vs.input_paths) |->
            [r \in 1..Len(vs.input_paths[f]) |-> <<f, r>>]])

CallTexts == Concat([c \in 1..Len(vs.calls) |-> vs.calls[c].texts])

CeilDiv(n, b) == (n + b - 1) \div b

\* every call so far: at most texts_per_batch texts, each with the
\* metadata of its own record; the first creates the index, the others add
CallsWellFormed ==
  \A c \in 1..Len(vs.calls) :
     LET call == vs.calls[c]
     IN /\ Len(call.texts) \in 1..vs.texts_per_batch
        /\ Len(call.metadatas) = Len(call.texts)
        /\ \A k \in 1..Len(call.texts) :
              call.metadatas[k] = [timestamp |-> call.texts[k]]
        /\ call.op = IF c = 1 THEN "from_texts" ELSE "add_texts"

\* C23: the N texts of a build go to the backend in ceil(N/B) consecutive
\* calls of at most B texts, every text once, in input order, each with its
\* own metadata; the first call creates the index, the later ones add to
\* it, and the index is saved only after the last batch.
C23_BatchedInOrderThenSaved ==
  /\ CallsWellFormed
  /\ vs.pc \in {"embed", "failed", "saved"} =>
        /\ Len(vs.calls) = CeilDiv(Min(vs.i, total), vs.texts_per_batch)
        /\ CallTexts = SubSeq(VsAllTexts, 1, Min(vs.i, total))
  /\ vs.saved =>
        /\ vs.pc = "saved"
        /\ total >= 1
        /\ CallTexts = VsAllTexts
        /\ Len(vs.calls) = CeilDiv(Len(VsAllTexts), vs.texts_per_batch)

C23_Witness ==
  /\ vs.saved
  /\ Len(vs.input_paths) = 2
  /\ total = 3
  /\ vs.texts_per_batch = 2
  /\ Len(vs.calls) = 2
  /\ vs.calls[2].op = "add_texts"

\* ================================================ ledger statuses
Statuses == {"pending", "done", "error"}

\* C24: every ledger entry, in memory and in the file, has status pending,
\* done or error, and when a run has gone through all messages every
\* input item with an id has status done or error, in memory and in the
\* file.
C24_StatusesAndNoPendingAtEnd ==
  /\ \A id \in DOMAIN checkpoint : checkpoint[id].status \in Statuses
  /\ \A id \in DOMAIN disk.data : disk.data[id].status \in Statuses
  /\ pc = "finished" =>
        \A id \in ItemIds(input) :
           /\ StatusOf(checkpoint, id) \in {"done", "error"}
           /\ disk.state = "complete"
           /\ StatusOf(disk.data, id) \in {"done", "error"}

C24_Witness ==
  /\ pc = "finished"
  /\ run = 2
  /\ prev_end = "crashed"
  /\ \E id \in ItemIds(input) : StatusOf(loaded, id) = "pending"
  /\ \E id \in ItemIds(input) : StatusOf(checkpoint, id) = "error"
  /\ \E id \in ItemIds(input) : StatusOf(checkpoint, id) = "done"

====
